---- MODULE Spec2Model ----
(***************************************************************************)
(* protoc-gen-apidocs (src/main.go): the generation driver, the template   *)
(* resolver / renderer and the template helper functions.                  *)
(*                                                                         *)
(* Go strings are modelled as sequences of tokens: one-character strings   *)
(* for the text helpers, atomic name tokens for paths and file names.      *)
(***************************************************************************)
EXTENDS Integers, Sequences, FiniteSets, TLC

VARIABLES
    Format,       \* GenOpts.Format       (flag "format")
    TemplateDir,  \* GenOpts.TemplateDir  (flag "templates")
    embedded,     \* names of the files under the embedded templates/ directory
    disk,         \* resolved paths of the template files on the host file system
    tplKind,      \* what the source text of the template files is like
    Files,        \* gen.Files, in input order
    idx,          \* position of the range loop of main
    genFiles,     \* generated files registered with the plugin (gen.NewGeneratedFile)
    rendered,     \* log of the renderTemplate calls made so far
    runErr,       \* the error the plugin function returned
    pc,           \* "loop" | "returned" | "responded"
    response,     \* the CodeGeneratorResponse handed back to the host
    content,      \* argument of a text helper
    result,       \* what the text helper returned
    fn,           \* which text helper ran
    desc,         \* argument of long_name
    field,        \* argument of field_type / full_field_type
    dresult,      \* what the descriptor helper returned
    dfn           \* which descriptor helper ran

vars == <<Format, TemplateDir, embedded, disk, tplKind, Files, idx, genFiles,
          rendered, runErr, pc, response, content, result, fn, desc, field,
          dresult, dfn>>

driverVars == <<Format, TemplateDir, embedded, disk, tplKind, Files, idx,
                genFiles, rendered, runErr, pc, response>>
textVars == <<content, result, fn>>
descVars == <<desc, field, dresult, dfn>>

-----------------------------------------------------------------------------
(* Bounds *)

MaxFiles == 3
MaxTextLen == 5
MaxDepth == 4
MaxDecor == 2
MaxAnchorLen == 3

-----------------------------------------------------------------------------
(* Generic sequence helpers *)

RECURSIVE Concat(_)
Concat(ss) == IF ss = <<>> THEN <<>> ELSE Head(ss) \o Concat(Tail(ss))

SeqsUpTo(S, n) == UNION {[1..k -> S] : k \in 0..n}

Last(s) == s[Len(s)]

\* strings.HasPrefix
HasPrefix(s, prefix) ==
    /\ Len(s) >= Len(prefix)
    /\ SubSeq(s, 1, Len(prefix)) = prefix

\* strings.Join
RECURSIVE Join(_, _)
Join(elems, sep) ==
    IF elems = <<>> THEN <<>>
    ELSE IF Len(elems) = 1 THEN elems[1]
    ELSE elems[1] \o sep \o Join(Tail(elems), sep)

-----------------------------------------------------------------------------
(* Errors.  A nil error is the record NoErr. *)

NoErr == [kind |-> "nil"]

-----------------------------------------------------------------------------
(* Paths.  A path string is a token sequence, "/" being the separator.      *)

\* the elements of a path string, split at every "/"
RECURSIVE SplitSlash(_, _)
SplitSlash(s, cur) ==
    IF s = <<>> THEN <<cur>>
    ELSE IF Head(s) = "/" THEN <<cur>> \o SplitSlash(Tail(s), <<>>)
    ELSE SplitSlash(Tail(s), Append(cur, Head(s)))

\* io/fs.ValidPath, as fs.Sub applies it to its dir argument
ValidPath(name) ==
    \/ name = <<".">>
    \/ LET elems == SplitSlash(name, <<>>)
       IN \A i \in 1..Len(elems) :
              /\ elems[i] # <<>>
              /\ elems[i] # <<".">>
              /\ elems[i] # <<"..">>

\* how the host resolves a path string handed to open(2)
RECURSIVE CleanElems(_, _)
CleanElems(elems, acc) ==
    IF elems = <<>> THEN acc
    ELSE LET e == Head(elems) IN
         IF e = <<>> \/ e = <<".">> THEN CleanElems(Tail(elems), acc)
         ELSE IF e = <<"..">> /\ acc # <<>> /\ Last(acc) # <<"..">>
              THEN CleanElems(Tail(elems), SubSeq(acc, 1, Len(acc) - 1))
         ELSE CleanElems(Tail(elems), Append(acc, e))

Resolve(path) ==
    [abs   |-> path # <<>> /\ Head(path) = "/",
     elems |-> CleanElems(SplitSlash(path, <<>>), <<>>)]

\* fmt.Sprintf("%v.tpl", o.Format)
TplName(format) == <<format, ".tpl">>

-----------------------------------------------------------------------------
(* Template resolution and rendering *)

\* GenOpts.getTemplateFS: the file system the template is parsed from.
\* root is the directory os.DirFS was opened on, sub the directory fs.Sub
\* descends into.
getTemplateFS(o) ==
    IF o.TemplateDir = <<>>
    THEN [err |-> NoErr, src |-> "embedded", root |-> <<>>, sub |-> <<"templates">>]
    ELSE IF ~ValidPath(o.TemplateDir)
    THEN [err  |-> [kind |-> "invalid", op |-> "sub", path |-> o.TemplateDir],
          src  |-> "none", root |-> <<>>, sub |-> <<>>]
    ELSE IF o.TemplateDir = <<".">>
    THEN [err |-> NoErr, src |-> "disk", root |-> o.TemplateDir, sub |-> <<>>]
    ELSE [err |-> NoErr, src |-> "disk", root |-> o.TemplateDir, sub |-> o.TemplateDir]

\* the file a name of tFS stands for
FSPath(tFS, name) ==
    IF tFS.src = "embedded"
    THEN tFS.sub \o <<"/">> \o name
    ELSE IF tFS.sub = <<>>
    THEN tFS.root \o <<"/">> \o name
    ELSE tFS.root \o <<"/">> \o tFS.sub \o <<"/">> \o name

\* whether tFS holds the file: the embedded set, or the host's disk
FSExists(tFS, name, emb, dsk) ==
    IF tFS.src = "embedded"
    THEN name \in emb
    ELSE Resolve(FSPath(tFS, name)) \in dsk

\* the bytes the "output" block writes for a file
Execute(format, file) == <<"output", format, file.stem>>

NoLookup == [src |-> "none", path |-> <<>>, found |-> FALSE]

\* GenOpts.renderTemplate: err, the bytes written to g, and which file was
\* looked up
renderTemplate(o, file, emb, dsk, kind) ==
    LET tFS  == getTemplateFS(o)
        name == TplName(o.Format)
    IN  IF tFS.err # NoErr
        THEN [err |-> tFS.err, out |-> <<>>, lookup |-> NoLookup]
        ELSE LET here == FSExists(tFS, name, emb, dsk)
                 look == [src |-> tFS.src, path |-> FSPath(tFS, name), found |-> here]
             IN  IF ~here
                 THEN [err |-> [kind |-> "not_found", pattern |-> name],
                       out |-> <<>>, lookup |-> look]
                 ELSE IF kind = "syntax_error"
                 THEN [err |-> [kind |-> "parse", template |-> name],
                       out |-> <<>>, lookup |-> look]
                 ELSE IF kind = "no_output"
                 THEN [err |-> [kind |-> "undefined", template |-> <<"output">>],
                       out |-> <<>>, lookup |-> look]
                 ELSE IF file.bad
                 THEN [err |-> [kind |-> "exec", template |-> <<"output">>],
                       out |-> <<"partial", o.Format, file.stem>>, lookup |-> look]
                 ELSE [err |-> NoErr, out |-> Execute(o.Format, file), lookup |-> look]

\* mutant: the render error is returned as it is, without context
generateFile_unwrapped(o, file, emb, dsk, kind) ==
    LET filename == <<file.stem, ".", o.Format>>
        r        == renderTemplate(o, file, emb, dsk, kind)
    IN  [g      |-> [name |-> filename, content |-> r.out],
         lookup |-> r.lookup,
         err    |-> r.err]

\* GenOpts.generateFile: registers the generated file, renders into it, and
\* wraps a render error
generateFile(o, file, emb, dsk, kind) ==
    LET filename == <<file.stem, ".", o.Format>>
        r        == renderTemplate(o, file, emb, dsk, kind)
    IN  [g      |-> [name |-> filename, content |-> r.out],
         lookup |-> r.lookup,
         err    |-> IF r.err # NoErr
                    THEN [kind     |-> "wrapped",
                          msg      |-> <<"issue generating ">> \o filename \o <<": ">>,
                          filename |-> filename,
                          cause    |-> r.err]
                    ELSE NoErr]

\* mutant: every file of the request is generated
shouldGenerate_all(f) == TRUE

\* main: `if !f.Generate { continue }`
shouldGenerate(f) == f.Generate

\* mutant: the error is dropped and the loop goes on
loopOutcome_continue(err) == "continue"

\* main: `if err := genOpts.generateFile(gen, f); err != nil { return err }`
loopOutcome(err) == IF err # NoErr THEN "return" ELSE "continue"

\* protogen's Options.Run after the plugin function returned: an error
\* becomes the response's error and no file is handed back; otherwise every
\* registered file is
Response(gfs, err) ==
    IF err # NoErr
    THEN [error |-> err, files |-> <<>>]
    ELSE [error |-> NoErr, files |-> gfs]

-----------------------------------------------------------------------------
(* Strings and regular expressions of the template helpers.  A string is a  *)
(* sequence of characters; offsets are Go's, starting at 0, and a match is  *)
(* the pair <<start, end>> of a half-open interval.                          *)

\* s[a:b]
Slice(s, a, b) == SubSeq(s, a + 1, b)

\* whether lit occurs in s at offset i
HasAt(s, i, lit) ==
    /\ i + Len(lit) <= Len(s)
    /\ Slice(s, i, i + Len(lit)) = lit

\* strings.Replace(s, old, new, -1), old not empty
RECURSIVE Replace(_, _, _)
Replace(s, old, new) ==
    IF s = <<>> THEN <<>>
    ELSE IF HasAt(s, 0, old)
    THEN new \o Replace(Slice(s, Len(old), Len(s)), old, new)
    ELSE <<Head(s)>> \o Replace(Tail(s), old, new)

\* strings.TrimLeft(s, cutset)
RECURSIVE TrimLeft(_, _)
TrimLeft(s, cutset) ==
    IF s # <<>> /\ Head(s) \in cutset THEN TrimLeft(Tail(s), cutset) ELSE s

\* strings.TrimRight(s, cutset)
RECURSIVE TrimRight(_, _)
TrimRight(s, cutset) ==
    IF s # <<>> /\ Last(s) \in cutset
    THEN TrimRight(SubSeq(s, 1, Len(s) - 1), cutset)
    ELSE s

\* the class \s of Go's regexp syntax
SpaceClass == {"\t", "\n", "\f", "\r", " "}

\* the offset after the longest run of characters of class at offset i
RECURSIVE StarEnd(_, _, _)
StarEnd(s, i, class) ==
    IF i < Len(s) /\ s[i + 1] \in class THEN StarEnd(s, i + 1, class) ELSE i

\* the first alternative, in the order written, that occurs at offset i;
\* 0 when none does
FirstAlt(s, i, alts) ==
    IF \E k \in 1..Len(alts) : HasAt(s, i, alts[k])
    THEN CHOOSE k \in 1..Len(alts) :
             /\ HasAt(s, i, alts[k])
             /\ \A j \in 1..(k - 1) : ~HasAt(s, i, alts[j])
    ELSE 0

\* mutant: the pattern without the trailing \s*
paraPattern_noSpace(s, i) ==
    LET alts == << <<"\n">>, <<"\r">>, <<"\r", "\n">> >>
        k    == FirstAlt(s, i, alts)
    IN  IF k = 0 THEN -1 ELSE i + Len(alts[k])

\* paraPattern = (\n|\r|\r\n)\s* : the end of its match at offset i, -1
\* when it does not match there.  \s* matches after any alternative, so the
\* first alternative that occurs is the one taken, and \s* is greedy.
paraPattern(s, i) ==
    LET alts == << <<"\n">>, <<"\r">>, <<"\r", "\n">> >>
        k    == FirstAlt(s, i, alts)
    IN  IF k = 0 THEN -1 ELSE StarEnd(s, i + Len(alts[k]), SpaceClass)

\* spacePattern = ( )+
spacePattern(s, i) ==
    IF HasAt(s, i, <<" ">>) THEN StarEnd(s, i, {" "}) ELSE -1

\* mutant: only \n counts as a line break
multiNewlinePattern_onlyLF(s, i) ==
    LET e == StarEnd(s, i, {"\n"}) IN IF e - i >= 2 THEN e ELSE -1

\* (\r\n|\r|\n){2,} from offset i with count repetitions made: the
\* alternatives are tried in the order written, one more repetition is
\* preferred to stopping, and a failure further on backtracks.
RECURSIVE RepeatLineBreak(_, _, _)
RepeatLineBreak(s, i, count) ==
    LET a1 == IF HasAt(s, i, <<"\r", "\n">>) THEN RepeatLineBreak(s, i + 2, count + 1) ELSE -1
        a2 == IF HasAt(s, i, <<"\r">>) THEN RepeatLineBreak(s, i + 1, count + 1) ELSE -1
        a3 == IF HasAt(s, i, <<"\n">>) THEN RepeatLineBreak(s, i + 1, count + 1) ELSE -1
    IN  IF a1 # -1 THEN a1
        ELSE IF a2 # -1 THEN a2
        ELSE IF a3 # -1 THEN a3
        ELSE IF count >= 2 THEN i
        ELSE -1

\* multiNewlinePattern = (\r\n|\r|\n){2,}
multiNewlinePattern(s, i) == RepeatLineBreak(s, i, 0)

Lower == {"a", "b", "c", "d", "e", "f", "g", "h", "i", "j", "k", "l", "m",
          "n", "o", "p", "q", "r", "s", "t", "u", "v", "w", "x", "y", "z"}
Upper == {"A", "B", "C", "D", "E", "F", "G", "H", "I", "J", "K", "L", "M",
          "N", "O", "P", "Q", "R", "S", "T", "U", "V", "W", "X", "Y", "Z"}
Digits == {"0", "1", "2", "3", "4", "5", "6", "7", "8", "9"}

\* specialCharsPattern = [^a-zA-Z0-9_-]
specialCharsPattern(s, i) ==
    IF i < Len(s) /\ s[i + 1] \notin (Lower \cup Upper \cup Digits \cup {"_", "-"})
    THEN i + 1
    ELSE -1

\* Regexp.FindAllStringIndex(s, -1) for a pattern that matches no empty
\* string: ends[i + 1] is the end of the match at offset i, or -1
RECURSIVE FindAll(_, _, _)
FindAll(ends, pos, n) ==
    IF pos >= n THEN <<>>
    ELSE IF ends[pos + 1] # -1
    THEN <<<<pos, ends[pos + 1]>>>> \o FindAll(ends, ends[pos + 1], n)
    ELSE FindAll(ends, pos + 1, n)

\* the loop of Regexp.Split over the matches
RECURSIVE SplitLoop(_, _, _)
SplitLoop(s, matches, beg) ==
    IF matches = <<>> THEN <<>>
    ELSE LET m == Head(matches) IN
         (IF m[2] # 0 THEN <<Slice(s, beg, m[1])>> ELSE <<>>)
             \o SplitLoop(s, Tail(matches), m[2])

\* Regexp.Split(s, -1)
Split(s, matches) ==
    IF Len(s) = 0 THEN << <<>> >>
    ELSE LET end == IF matches = <<>> THEN 0 ELSE Last(matches)[1]
             beg == IF matches = <<>> THEN 0 ELSE Last(matches)[2]
         IN  SplitLoop(s, matches, 0)
                 \o (IF end # Len(s) THEN <<Slice(s, beg, Len(s))>> ELSE <<>>)

\* Regexp.ReplaceAllString(s, repl), repl holding no $
RECURSIVE ReplaceLoop(_, _, _, _)
ReplaceLoop(s, matches, beg, repl) ==
    IF matches = <<>> THEN Slice(s, beg, Len(s))
    ELSE LET m == Head(matches) IN
         Slice(s, beg, m[1]) \o repl \o ReplaceLoop(s, Tail(matches), m[2], repl)

paraMatches(s) == FindAll([i \in 1..Len(s) |-> paraPattern(s, i - 1)], 0, Len(s))
spaceMatches(s) == FindAll([i \in 1..Len(s) |-> spacePattern(s, i - 1)], 0, Len(s))
multiNewlineMatches(s) ==
    FindAll([i \in 1..Len(s) |-> multiNewlinePattern(s, i - 1)], 0, Len(s))
specialCharsMatches(s) ==
    FindAll([i \in 1..Len(s) |-> specialCharsPattern(s, i - 1)], 0, Len(s))

-----------------------------------------------------------------------------
(* The template helpers on strings *)

\* mutant: the "/" are not replaced first
anchor_noSlash(str) == ReplaceLoop(str, specialCharsMatches(str), 0, <<"-">>)

\* templateFuncMap "anchor"
anchor(str) ==
    LET under == Replace(str, <<"/">>, <<"_">>)
    IN  ReplaceLoop(under, specialCharsMatches(under), 0, <<"-">>)

Exclude == <<"@", "e", "x", "c", "l", "u", "d", "e">>

\* mutant: the decoration is trimmed on both sides
description_trimBoth(s) ==
    LET val == TrimRight(TrimLeft(s, {"*", "/", "\n", " "}), {"*", "/", "\n", " "})
    IN  IF HasPrefix(val, Exclude) THEN <<>> ELSE val

\* templateFuncMap "description"
description(s) ==
    LET val == TrimLeft(s, {"*", "/", "\n", " "})
    IN  IF HasPrefix(val, Exclude) THEN <<>> ELSE val

\* paraPattern.Split(content, -1)
paragraphsOf(text) == Split(text, paraMatches(text))

\* pFilter
pFilter(text) ==
    <<"<p>">> \o Join(paragraphsOf(text), <<"</p>", "<p>">>) \o <<"</p>">>

\* paraFilter
paraFilter(text) ==
    <<"<para>">> \o Join(paragraphsOf(text), <<"</para>", "<para>">>) \o <<"</para>">>

\* nobrFilter: the paragraphs before they are joined
nobrParagraphs(text) ==
    LET normalized == Replace(text, <<"\r", "\n">>, <<"\n">>)
        paragraphs == Split(normalized, multiNewlineMatches(normalized))
    IN  [i \in 1..Len(paragraphs) |->
            LET withoutCR == Replace(paragraphs[i], <<"\r">>, <<" ">>)
                withoutLF == Replace(withoutCR, <<"\n">>, <<" ">>)
            IN  ReplaceLoop(withoutLF, spaceMatches(withoutLF), 0, <<" ">>)]

\* nobrFilter
nobrFilter(text) == Join(nobrParagraphs(text), <<"\n", "\n">>)

-----------------------------------------------------------------------------
(* Descriptors.  A descriptor is the path of simple names from its file     *)
(* down to it; the first name is the file's package ("" when it has none).  *)

Nil == <<>>

\* protoreflect.Descriptor.Parent: nil for a file
Parent(d) == IF Len(d) <= 1 THEN Nil ELSE SubSeq(d, 1, Len(d) - 1)

\* protoreflect.Descriptor.Name
Name(d) == Last(d)

\* protoreflect.Descriptor.FullName: the parent's full name, a dot, the name
RECURSIVE FullName(_)
FullName(d) ==
    IF Len(d) = 1 THEN (IF d[1] = "" THEN <<>> ELSE <<d[1]>>)
    ELSE LET pf == FullName(Parent(d))
         IN  IF pf = <<>> THEN <<Name(d)>> ELSE pf \o <<".", Name(d)>>

\* fmt.Sprint(f.Desc.Kind()): protoreflect.Kind's String
KindString(k) ==
    CASE k = 5  -> "int32"
      [] k = 8  -> "bool"
      [] k = 9  -> "string"
      [] k = 10 -> "group"
      [] k = 11 -> "message"
      [] k = 14 -> "enum"

\* mutant: a parent is enough to qualify the name
longName_parentOnly(d) ==
    LET p == Parent(d)
    IN  IF p # Nil THEN <<Name(p), ".", Name(d)>> ELSE <<Name(d)>>

\* longName
longName(d) ==
    LET p == Parent(d)
    IN  IF p # Nil /\ Parent(p) # Nil
        THEN <<Name(p), ".", Name(d)>>
        ELSE <<Name(d)>>

\* mutant: the enum branch is missing
field_type_noEnum(f) ==
    IF f.Message # Nil THEN longName(f.Message)
    ELSE <<KindString(f.Kind)>>

\* templateFuncMap "field_type"
field_type(f) ==
    IF f.Message # Nil THEN longName(f.Message)
    ELSE IF f.Enum # Nil THEN longName(f.Enum)
    ELSE <<KindString(f.Kind)>>

\* templateFuncMap "full_field_type"
full_field_type(f) ==
    IF f.Message # Nil THEN FullName(f.Message)
    ELSE IF f.Enum # Nil THEN FullName(f.Enum)
    ELSE <<KindString(f.Kind)>>

-----------------------------------------------------------------------------
(* The generation run *)

Formats == {"markdown", "pdf"}

TemplateDirs ==
    { <<>>, <<".">>, <<"tpl">>, <<"/", "abs">>, <<".", "/", "tpl">> }

\* the template text parses and defines "output" ("valid"), does not parse,
\* or parses without defining the "output" block
TplKinds == {"valid", "syntax_error", "no_output"}

\* the embedded set ships the default format's template, or not even that
EmbeddedSets == { {}, {TplName("markdown")} }

\* where a template file of the format may live on the host
DiskCandidates(format) ==
    { Resolve(d \o <<"/">> \o TplName(format)) :
        d \in { <<".">>, <<"tpl">>, <<"tpl", "/", "tpl">>, <<"/", "abs">> } }

Stems == <<"a", "b", "c", "d", "e">>

FileLists ==
    { [i \in 1..n |-> [stem |-> Stems[i], Generate |-> gs[i], bad |-> bs[i]]] :
        <<n, gs, bs>> \in
            UNION { {n2} \X [1..n2 -> BOOLEAN] \X [1..n2 -> BOOLEAN] : n2 \in 0..MaxFiles } }

NoResponse == [error |-> NoErr, files |-> <<>>]

TextIdle == /\ content = <<>>
            /\ result = <<>>
            /\ fn = "none"

DescIdle == /\ desc = <<>>
            /\ field = [Kind |-> 0, Message |-> <<>>, Enum |-> <<>>]
            /\ dresult = <<>>
            /\ dfn = "none"

Init ==
    /\ Format \in Formats
    /\ TemplateDir \in TemplateDirs
    /\ embedded \in EmbeddedSets
    /\ disk \in SUBSET DiskCandidates(Format)
    /\ tplKind \in TplKinds
    /\ Files \in FileLists
    \* bad: executing the "output" block on the file fails at run time,
    \* which only a template that parses and defines the block can do
    /\ tplKind # "valid" => \A i \in 1..Len(Files) : ~Files[i].bad
    /\ idx = 1
    /\ genFiles = <<>>
    /\ rendered = <<>>
    /\ runErr = NoErr
    /\ pc = "loop"
    /\ response = NoResponse
    /\ TextIdle
    /\ DescIdle

genOpts == [Format |-> Format, TemplateDir |-> TemplateDir]

\* a file not marked for generation is passed over
LoopSkip ==
    /\ pc = "loop"
    /\ idx <= Len(Files)
    /\ ~shouldGenerate(Files[idx])
    /\ idx' = idx + 1
    /\ UNCHANGED <<Format, TemplateDir, embedded, disk, tplKind, Files, genFiles,
                   rendered, runErr, pc, response>>
    /\ UNCHANGED <<textVars, descVars>>

\* one iteration of the loop of main on a file marked for generation
LoopGenerate ==
    /\ pc = "loop"
    /\ idx <= Len(Files)
    /\ shouldGenerate(Files[idx])
    /\ LET r == generateFile(genOpts, Files[idx], embedded, disk, tplKind)
       IN  /\ genFiles' = Append(genFiles, r.g)
           /\ rendered' = Append(rendered, [stem |-> Files[idx].stem,
                                            lookup |-> r.lookup,
                                            err |-> r.err])
           /\ IF loopOutcome(r.err) = "return"
              THEN /\ runErr' = r.err
                   /\ pc' = "returned"
                   /\ idx' = idx
              ELSE /\ runErr' = runErr
                   /\ pc' = pc
                   /\ idx' = idx + 1
    /\ UNCHANGED <<Format, TemplateDir, embedded, disk, tplKind, Files, response>>
    /\ UNCHANGED <<textVars, descVars>>

\* the loop is over: `return nil`
LoopExit ==
    /\ pc = "loop"
    /\ idx > Len(Files)
    /\ pc' = "returned"
    /\ UNCHANGED <<Format, TemplateDir, embedded, disk, tplKind, Files, idx,
                   genFiles, rendered, runErr, response>>
    /\ UNCHANGED <<textVars, descVars>>

\* the plugin function returned: the response goes back to the host
Respond ==
    /\ pc = "returned"
    /\ response' = Response(genFiles, runErr)
    /\ pc' = "responded"
    /\ UNCHANGED <<Format, TemplateDir, embedded, disk, tplKind, Files, idx,
                   genFiles, rendered, runErr>>
    /\ UNCHANGED <<textVars, descVars>>

Next == LoopSkip \/ LoopGenerate \/ LoopExit \/ Respond

Spec == Init /\ [][Next]_vars

-----------------------------------------------------------------------------
(* The string helpers, each applied to an input drawn from bounded sets     *)

DriverIdle ==
    /\ Format = "markdown"
    /\ TemplateDir = <<>>
    /\ embedded = {}
    /\ disk = {}
    /\ tplKind = "valid"
    /\ Files = <<>>
    /\ idx = 1
    /\ genFiles = <<>>
    /\ rendered = <<>>
    /\ runErr = NoErr
    /\ pc = "idle"
    /\ response = NoResponse

TextAlphabet == {"a", " ", "\n", "\r", "\t"}

\* "a\nb\n\nc" and "l1\nl2\n\np2", the examples of p and nobr
ExampleP == <<"a", "\n", "b", "\n", "\n", "c">>
ExampleNobr == <<"l", "1", "\n", "l", "2", "\n", "\n", "p", "2">>

Decoration == {"*", "/", "\n", " "}

CommentBodies ==
    { <<>>,
      Exclude,
      Exclude \o <<" ", "x">>,
      SubSeq(Exclude, 1, 7),
      <<"x">> \o Exclude,
      <<"h", "i">>,
      <<"h", " ", "w", " ", " ", "\n">>,
      <<"h", "*", "/">> }

\* "/** @exclude x */"
ExampleExclude == <<"/", "*", "*", " ">> \o Exclude \o <<" ", "x", " ", "*", "/">>

AnchorAlphabet == {"a", "Z", "7", "_", "-", "/", "!"}

\* "Foo/Bar Baz!", and a name with a character outside ASCII (one rune)
ExampleAnchor == <<"F", "o", "o", "/", "B", "a", "r", " ", "B", "a", "z", "!">>
ExampleRune == <<"n", "U+00E9", "/", "e">>

TextInputs ==
    SeqsUpTo(TextAlphabet, MaxTextLen)
        \cup {ExampleP, ExampleNobr, ExampleExclude, ExampleAnchor, ExampleRune}
        \cup {pre \o body : pre \in SeqsUpTo(Decoration, MaxDecor), body \in CommentBodies}
        \cup SeqsUpTo(AnchorAlphabet, MaxAnchorLen)

InitText ==
    /\ DriverIdle
    /\ DescIdle
    /\ content \in TextInputs
    /\ result = <<>>
    /\ fn = "none"

CallAnchor ==
    /\ fn = "none"
    /\ fn' = "anchor"
    /\ result' = anchor(content)
    /\ UNCHANGED <<content, driverVars, descVars>>

CallDescription ==
    /\ fn = "none"
    /\ fn' = "description"
    /\ result' = description(content)
    /\ UNCHANGED <<content, driverVars, descVars>>

CallP ==
    /\ fn = "none"
    /\ fn' = "p"
    /\ result' = pFilter(content)
    /\ UNCHANGED <<content, driverVars, descVars>>

CallPara ==
    /\ fn = "none"
    /\ fn' = "para"
    /\ result' = paraFilter(content)
    /\ UNCHANGED <<content, driverVars, descVars>>

CallNobr ==
    /\ fn = "none"
    /\ fn' = "nobr"
    /\ result' = nobrFilter(content)
    /\ UNCHANGED <<content, driverVars, descVars>>

NextText == CallAnchor \/ CallDescription \/ CallP \/ CallPara \/ CallNobr

SpecText == InitText /\ [][NextText]_vars

-----------------------------------------------------------------------------
(* The descriptor helpers, each applied to a node of a bounded schema tree  *)

Packages == {"pkg", ""}
NodeNames == {"User", "id", "Status"}

\* every node down to MaxDepth levels, files included
Descriptors ==
    { <<pk>> \o rest : pk \in Packages, rest \in SeqsUpTo(NodeNames, MaxDepth - 1) }

\* the nodes a field can refer to: messages and enums, at any depth
TypeNodes == { d \in Descriptors : Len(d) >= 2 }

\* protogen sets Message for message and group fields, Enum for enum
\* fields, and neither for the other kinds
FieldsOf ==
    [Kind : {10, 11}, Message : TypeNodes, Enum : {Nil}]
        \cup [Kind : {14}, Message : {Nil}, Enum : TypeNodes]
        \cup [Kind : {5, 8, 9}, Message : {Nil}, Enum : {Nil}]

NoField == [Kind |-> 0, Message |-> Nil, Enum |-> Nil]

InitDesc ==
    /\ DriverIdle
    /\ TextIdle
    /\ \/ desc \in Descriptors /\ field = NoField
       \/ desc = Nil /\ field \in FieldsOf
    /\ dresult = <<>>
    /\ dfn = "none"

CallLongName ==
    /\ dfn = "none"
    /\ desc # Nil
    /\ dfn' = "long_name"
    /\ dresult' = longName(desc)
    /\ UNCHANGED <<desc, field, driverVars, textVars>>

CallFieldType ==
    /\ dfn = "none"
    /\ field # NoField
    /\ dfn' = "field_type"
    /\ dresult' = field_type(field)
    /\ UNCHANGED <<desc, field, driverVars, textVars>>

CallFullFieldType ==
    /\ dfn = "none"
    /\ field # NoField
    /\ dfn' = "full_field_type"
    /\ dresult' = full_field_type(field)
    /\ UNCHANGED <<desc, field, driverVars, textVars>>

NextDesc == CallLongName \/ CallFieldType \/ CallFullFieldType

SpecDesc == InitDesc /\ [][NextDesc]_vars

-----------------------------------------------------------------------------
(* Claims about the generation run (checked under Spec) *)

\* the files of the request that are marked for generation, in input order
Marked == SelectSeq(Files, LAMBDA f : f.Generate)

Failed(i) == rendered[i].err # NoErr

\* the template file the override directory itself holds for the format
DirectTemplate == Resolve(TemplateDir \o <<"/">> \o TplName(Format))

\* C1: with a non-empty templateDir D, every render looks up the file
\* F.tpl directly inside D and nothing else: the template is found if and
\* only if D/F.tpl exists, and the embedded set is never consulted.
C1_OverrideDirectoryIsTheSource ==
    \A i \in 1..Len(rendered) :
        TemplateDir # <<>> =>
            /\ rendered[i].lookup.src # "embedded"
            /\ rendered[i].lookup.found <=> DirectTemplate \in disk
            /\ rendered[i].lookup.found =>
                   Resolve(rendered[i].lookup.path) = DirectTemplate

\* C2: a failure halts the run at the failing file (it is the last file
\* rendered and the loop is left), the run ends with an error, and the
\* response holds no artifact at all, whatever was registered before.
C2_AllOrNothing ==
    /\ \A i \in 1..Len(rendered) :
           Failed(i) => /\ i = Len(rendered)
                        /\ pc # "loop"
                        /\ runErr # NoErr
    /\ (pc = "responded" /\ \E i \in 1..Len(rendered) : Failed(i)) =>
           /\ response.error # NoErr
           /\ response.files = <<>>
    /\ \A i \in 1..Len(rendered) :
           (pc = "responded" /\ rendered[i].err # NoErr
              /\ rendered[i].err.kind = "wrapped"
              /\ rendered[i].err.cause.kind = "not_found") =>
               Len(response.files) = 0

\* C2 witness: the first file was rendered completely, the second failed
\* half-way through its output, a third marked file was never rendered, and
\* the response went out.
C2_Witness ==
    /\ pc = "responded"
    /\ Len(rendered) = 2
    /\ ~Failed(1)
    /\ Failed(2)
    /\ Len(genFiles) = 2
    /\ genFiles[2].content # <<>>
    /\ Len(Marked) = 3

\* C3: when every render succeeded, the response holds exactly one artifact
\* per file marked for generation, in input order, named <stem>.<format>
\* and holding the output block executed on that file; unmarked files give
\* nothing.
C3_OutputContract ==
    (pc = "responded" /\ runErr = NoErr) =>
        /\ Len(response.files) = Len(Marked)
        /\ \A i \in 1..Len(Marked) :
               /\ response.files[i].name = <<Marked[i].stem, ".", Format>>
               /\ response.files[i].content = <<"output", Format, Marked[i].stem>>
        /\ \A j \in 1..Len(Files) :
               ~Files[j].Generate =>
                   \A i \in 1..Len(response.files) :
                       response.files[i].name[1] # Files[j].stem

\* C3 witness: a successful run over two marked files with an unmarked one
\* between them.
C3_Witness ==
    /\ pc = "responded"
    /\ runErr = NoErr
    /\ Len(Files) = 3
    /\ Files[1].Generate /\ ~Files[2].Generate /\ Files[3].Generate
    /\ Len(response.files) = 2

\* whether a token occurs in a message
Mentions(msg, tok) == \E k \in 1..Len(msg) : msg[k] = tok

\* the file of the request a render was made for
FileOf(stem) == CHOOSE f \in {Files[j] : j \in 1..Len(Files)} : f.stem = stem

\* C4: every failure of a render (resolution, not found, parse, execution)
\* comes back as an error naming the format and the input file and wrapping
\* the underlying cause; it is what the run returns and what the response
\* reports.
C4_ErrorContext ==
    \A i \in 1..Len(rendered) :
        LET e == rendered[i].err
            r == renderTemplate(genOpts, FileOf(rendered[i].stem), embedded, disk, tplKind)
        IN  /\ r.err # NoErr <=> e # NoErr
            /\ e # NoErr =>
                   /\ e.kind = "wrapped"
                   /\ Mentions(e.msg, Format)
                   /\ Mentions(e.msg, rendered[i].stem)
                   /\ e.cause = r.err
                   /\ e.cause.kind \in {"invalid", "not_found", "parse", "undefined", "exec"}
                   /\ runErr = e
                   /\ pc = "responded" => response.error = e

\* C4 witness: a run that ended on a run-time execution error of the
\* second file.
C4_Witness ==
    /\ pc = "responded"
    /\ Len(rendered) = 2
    /\ response.error # NoErr
    /\ response.error.kind = "wrapped"
    /\ response.error.cause.kind = "exec"

-----------------------------------------------------------------------------
(* Claims about the string helpers (checked under SpecText) *)

LineBreaks == {"\r", "\n"}

\* C5: description removes the longest prefix made of "*", "/", newline and
\* space, and nothing on the right; the result is empty when what is left
\* starts with @exclude and is exactly what is left otherwise.
C5_DescriptionRedaction ==
    fn = "description" =>
        \E k \in 0..Len(content) :
            /\ \A j \in 1..k : content[j] \in {"*", "/", "\n", " "}
            /\ k < Len(content) => content[k + 1] \notin {"*", "/", "\n", " "}
            /\ LET rest     == [j \in 1..(Len(content) - k) |-> content[k + j]]
                   excluded == /\ Len(rest) >= 8
                               /\ \A j \in 1..8 : rest[j] = Exclude[j]
               IN  result = IF excluded THEN <<>> ELSE rest

\* C5 witness: "/** @exclude x */" was redacted to the empty string.
C5_Witness ==
    /\ fn = "description"
    /\ content = ExampleExclude
    /\ result = <<>>

\* C10: anchor keeps the length, yields only characters of [A-Za-z0-9_-],
\* turns "/" into "_", any other character outside the class into "-", and
\* leaves the characters of the class alone.
C10_AnchorSanitised ==
    fn = "anchor" =>
        LET class == Lower \cup Upper \cup Digits \cup {"_", "-"} IN
        /\ Len(result) = Len(content)
        /\ \A i \in 1..Len(content) :
               /\ result[i] \in class
               /\ content[i] = "/" => result[i] = "_"
               /\ (content[i] # "/" /\ content[i] \notin class) => result[i] = "-"
               /\ content[i] \in class => result[i] = content[i]
        /\ content = ExampleAnchor =>
               result = <<"F", "o", "o", "_", "B", "a", "r", "-", "B", "a", "z", "-">>

\* C10 witness: anchor("Foo/Bar Baz!") was computed.
C10_Witness ==
    /\ fn = "anchor"
    /\ content = ExampleAnchor
    /\ result = <<"F", "o", "o", "_", "B", "a", "r", "-", "B", "a", "z", "-">>

\* whether position i of s lies in a separator of p / para: a line break
\* followed by nothing but whitespace up to i
InSeparator(s, i) ==
    \E j \in 1..i :
        /\ s[j] \in LineBreaks
        /\ \A k \in (j + 1)..i : s[k] \in SpaceClass

\* what one position of the input contributes to the output of p / para
WrapEmit(s, i, open, close) ==
    IF InSeparator(s, i)
    THEN IF i = 1 \/ ~InSeparator(s, i - 1) THEN <<close, open>> ELSE <<>>
    ELSE <<s[i]>>

WrapReference(s, open, close) ==
    <<open>> \o Concat([i \in 1..Len(s) |-> WrapEmit(s, i, open, close)]) \o <<close>>

\* C7: p / para split the input at every line break together with all the
\* whitespace after it and concatenate the wrapped segments; no segment
\* holds a line break, "a\nb\n\nc" gives three paragraphs and the empty
\* input one empty paragraph.
C7_ParagraphWrapping ==
    /\ fn = "p" =>
           /\ result = WrapReference(content, "<p>", "</p>")
           /\ result = Concat([i \in 1..Len(paragraphsOf(content)) |->
                                  <<"<p>">> \o paragraphsOf(content)[i] \o <<"</p>">>])
           /\ content = ExampleP =>
                  result = <<"<p>", "a", "</p>", "<p>", "b", "</p>", "<p>", "c", "</p>">>
           /\ content = <<>> => result = <<"<p>", "</p>">>
    /\ fn = "para" =>
           /\ result = WrapReference(content, "<para>", "</para>")
           /\ result = Concat([i \in 1..Len(paragraphsOf(content)) |->
                                  <<"<para>">> \o paragraphsOf(content)[i] \o <<"</para>">>])
           /\ content = <<>> => result = <<"<para>", "</para>">>
    /\ fn \in {"p", "para"} =>
           /\ \A i \in 1..Len(result) : result[i] \notin LineBreaks
           /\ \A i \in 1..Len(paragraphsOf(content)) :
                  \A j \in 1..Len(paragraphsOf(content)[i]) :
                      paragraphsOf(content)[i][j] \notin LineBreaks

\* C7 witness: p("a\nb\n\nc") gave three paragraphs.
C7_Witness ==
    /\ fn = "p"
    /\ content = ExampleP
    /\ Len(paragraphsOf(content)) = 3

\* the input of nobr with every "\r" that a "\n" follows dropped
NobrNormalized(s) ==
    LET keep == {i \in 1..Len(s) : ~(s[i] = "\r" /\ i < Len(s) /\ s[i + 1] = "\n")}
        pos  == [k \in 1..Cardinality(keep) |->
                    CHOOSE i \in keep : Cardinality({j \in keep : j < i}) = k - 1]
    IN  [k \in 1..Cardinality(keep) |-> s[pos[k]]]

\* position i of n lies in a run of two or more line-break characters
InBreak(n, i) ==
    /\ n[i] \in LineBreaks
    /\ \/ i > 1 /\ n[i - 1] \in LineBreaks
       \/ i < Len(n) /\ n[i + 1] \in LineBreaks

\* the character position i stands for inside its paragraph
Flat(n, i) == IF n[i] \in LineBreaks THEN " " ELSE n[i]

\* what one position of the normalized input contributes to nobr's output
NobrEmit(n, i) ==
    IF InBreak(n, i)
    THEN IF i = 1 \/ ~InBreak(n, i - 1) THEN <<"\n", "\n">> ELSE <<>>
    ELSE IF Flat(n, i) = " " /\ i > 1 /\ ~InBreak(n, i - 1) /\ Flat(n, i - 1) = " "
         THEN <<>>
         ELSE <<Flat(n, i)>>

NobrReference(s) ==
    LET n == NobrNormalized(s) IN Concat([i \in 1..Len(n) |-> NobrEmit(n, i)])

\* a line break of the input starts at position i ("\r\n" is one line break)
BreakStart(s, i) ==
    /\ s[i] \in LineBreaks
    /\ ~(s[i] = "\n" /\ i > 1 /\ s[i - 1] = "\r")

\* the paragraph breaks of the input: the maximal runs of line-break
\* characters that hold two line breaks or more
ParagraphBreaks(s) ==
    { i \in 1..Len(s) :
        /\ s[i] \in LineBreaks
        /\ i = 1 \/ s[i - 1] \notin LineBreaks
        /\ LET e == StarEnd(s, i - 1, LineBreaks)
           IN  Cardinality({j \in i..e : BreakStart(s, j)}) >= 2 }

\* C6: nobr equals the reference reflow; its output holds no "\r", every
\* run of line breaks in it is exactly "\n\n", no two spaces are adjacent,
\* and there is one paragraph more than paragraph breaks in the input.
C6_NobrReflow ==
    fn = "nobr" =>
        /\ result = NobrReference(content)
        /\ \A i \in 1..Len(result) : result[i] # "\r"
        /\ \A i \in 1..Len(result) :
               (result[i] = "\n" /\ (i = 1 \/ result[i - 1] # "\n")) =>
                   /\ i < Len(result)
                   /\ result[i + 1] = "\n"
                   /\ i + 1 < Len(result) => result[i + 2] # "\n"
        /\ \A i \in 1..(Len(result) - 1) : ~(result[i] = " " /\ result[i + 1] = " ")
        /\ \A k \in 1..Len(nobrParagraphs(content)) :
               \A i \in 1..(Len(nobrParagraphs(content)[k]) - 1) :
                   ~(nobrParagraphs(content)[k][i] = " "
                       /\ nobrParagraphs(content)[k][i + 1] = " ")
        /\ Len(nobrParagraphs(content)) = Cardinality(ParagraphBreaks(content)) + 1
        /\ content = ExampleNobr =>
               result = <<"l", "1", " ", "l", "2", "\n", "\n", "p", "2">>

\* C6 witness: nobr ran on an input with "\r\r\n" between two words,
\* which is a paragraph break.
C6_Witness ==
    /\ fn = "nobr"
    /\ content = <<"a", "\r", "\r", "\n">>
    /\ result = <<"a", "\n", "\n">>

-----------------------------------------------------------------------------
(* Claims about the descriptor helpers (checked under SpecDesc) *)

\* the type a field refers to, Nil for a field of a primitive kind
Referenced(f) == IF f.Message # Nil THEN f.Message ELSE f.Enum

\* the names of a node from the outermost one, the package first when the
\* file has one, joined by dots
Qualified(d) ==
    LET comps == IF d[1] = "" THEN Tail(d) ELSE d
    IN  Join([i \in 1..Len(comps) |-> <<comps[i]>>], <<".">>)

\* C8 as stated: field_type returns the simple name of the referenced
\* message or enum whatever its nesting depth, full_field_type its
\* fully-qualified name, and both the kind's label for any other field.
C8_FieldTypeSimpleName ==
    /\ (dfn = "field_type" /\ Referenced(field) # Nil) =>
           dresult = <<Referenced(field)[Len(Referenced(field))]>>
    /\ (dfn = "full_field_type" /\ Referenced(field) # Nil) =>
           dresult = Qualified(Referenced(field))
    /\ (dfn \in {"field_type", "full_field_type"} /\ Referenced(field) = Nil) =>
           dresult = <<KindString(field.Kind)>>

\* C8 amended: field_type returns the referenced type's simple name when the
\* type is declared directly in a file and <parent-name>.<name> when it is
\* nested in another message; full_field_type returns its fully-qualified
\* name; both return the kind's label for a field of any other kind.
C8_FieldTypeLongName ==
    /\ (dfn = "field_type" /\ Referenced(field) # Nil) =>
           LET t == Referenced(field) IN
           IF Len(t) = 2
           THEN dresult = <<t[2]>>
           ELSE dresult = <<t[Len(t) - 1], ".", t[Len(t)]>>
    /\ (dfn = "full_field_type" /\ Referenced(field) # Nil) =>
           dresult = Qualified(Referenced(field))
    /\ (dfn \in {"field_type", "full_field_type"} /\ Referenced(field) = Nil) =>
           /\ field.Kind \in {5, 8, 9}
           /\ dresult = <<CASE field.Kind = 5 -> "int32"
                            [] field.Kind = 8 -> "bool"
                            [] field.Kind = 9 -> "string">>

\* C8 witness: field_type ran on a field whose enum is nested in a message.
C8_Witness ==
    /\ dfn = "field_type"
    /\ field.Enum = <<"pkg", "User", "Status">>
    /\ dresult = <<"User", ".", "Status">>

\* C9: longName is <parent-name>.<name> for a node that has a grandparent,
\* with the immediate parent's simple name only, and the simple name alone
\* for a file and for a node directly under a file.
C9_LongNameTwoLevels ==
    dfn = "long_name" =>
        /\ Len(desc) >= 3 => dresult = <<desc[Len(desc) - 1], ".", desc[Len(desc)]>>
        /\ Len(desc) <= 2 => dresult = <<desc[Len(desc)]>>
        /\ Cardinality({i \in 1..Len(dresult) : dresult[i] = "."}) <= 1

\* C9 witness: longName ran on a node three levels below its file.
C9_Witness ==
    /\ dfn = "long_name"
    /\ desc = <<"pkg", "User", "Status", "id">>
    /\ dresult = <<"Status", ".", "id">>

====
